---- MODULE Spec2Model ----
(***************************************************************************)
(* gobuffet: the item record store (item/util: Add, Del, Mod over the      *)
(* items table and the img/ asset directory).                              *)
(*                                                                         *)
(* The table is the set `rows`, the asset directory is the set `blobs` of  *)
(* file names under img/.  Every caller runs one call at a time; a call is *)
(* a sequence of steps (asset write, SQL statement, commit, asset removal) *)
(* and `frame[p]` holds the call's arguments, its local variables and its  *)
(* position.  Every asset write, SQL statement, commit and os.Remove may   *)
(* fail; the failure is an input of the step.  The values the code throws  *)
(* away (the error of tx.Commit, the error of os.Remove) are kept in the   *)
(* frame as commitErr and rmErr; no step reads them.                       *)
(*                                                                         *)
(* The text functions of item/util (Price.Set, Price.String, ParseItem)    *)
(* and the query Get have specifications of their own: `price` is the      *)
(* Price variable a call works on and `call` records the last call, its    *)
(* argument and what it returned.                                          *)
(*                                                                         *)
(* The HTTP server (serve: handleRoot, handleAdmin, dbConnFix) has the     *)
(* checkout of handleRoot as a call of its own, and its goroutines in      *)
(* `handler`, with the lock `dbLock` that guards the connection `dbConn`.  *)
(***************************************************************************)
EXTENDS Integers, Sequences, FiniteSets, TLC

\* ---------------------------------------------------------------- bounds
\* the clock runs over the seconds 0..MaxTime
MaxTime == 1
\* the ids of the table are 1..MaxId
MaxId == 2
\* a Mod sets at most MaxSet columns
MaxSet == 2

Callers == {"c1", "c2"}
IDs == 1..MaxId
Names == {"a", "b"}
AddPrices == {100}
ModPrices == {250}
Descrs == {"d"}
\* a user-supplied file name, as path segments: "up/x.png"
OrigNames == {<<"up", "x.png">>}

\* ------------------------------------------------------- values and nil
\* nil pointers of Item, SQL NULL, the empty string of a name or a path
NilInt == 0 - 1
NilStr == "<nil>"
NilPath == <<"<nil>">>
EmptyPath == <<>>
Null == "<NULL>"
NoImg == <<>>
NoPath == <<>>

VARIABLES rows, blobs, dirExists, now, frame, tx, price, call,
          dbLock, dbConn, handler

vars ==
    <<rows, blobs, dirExists, now, frame, tx, price, call,
      dbLock, dbConn, handler>>

\* the record store, and the Price variable and last call of the text
\* functions
store == <<rows, blobs, dirExists, now, frame, tx>>

text == <<price, call>>

\* the HTTP server: the lock of the connection, the connection and the
\* handlers of the requests in progress
server == <<dbLock, dbConn, handler>>

\* ------------------------------------------------------------- helpers
NilItem ==
    [ID |-> NilInt, Name |-> NilStr, Descr |-> NilStr, Price |-> NilInt,
     ImgName |-> NilPath]

\* a caller between calls: the last call, what it returned, and the two
\* discarded errors of that call
IdleFrame(o, r, c, e) ==
    [pc |-> "idle", op |-> o, ret |-> r, commitErr |-> c, rmErr |-> e,
     it |-> NilItem, id |-> NilInt, name |-> "", ids |-> {}, names |-> {},
     img |-> NoImg, newImg |-> NoImg, newImgPath |-> NoPath, imgs |-> {}]

NoTx == [old |-> {}, new |-> {}]

\* no call of a text function made yet
NoCall == [op |-> "none"]

\* the goroutines that serve requests at one time
MaxHandlers == 2

HandlerNames == <<"h1", "h2", "h3", "h4">>

Handlers == {HandlerNames[i] : i \in 1..MaxHandlers}

\* var dbLock sync.RWMutex, unlocked: r the read locks each goroutine
\* holds, rwait the goroutines blocked in RLock, w the goroutine that has
\* the writers' mutex, excl whether it has the lock, wq the goroutines
\* blocked on the writers' mutex
FreeLock ==
    [r |-> [h \in Handlers |-> 0], rwait |-> {}, w |-> "none", excl |-> FALSE,
     wq |-> <<>>]

\* var dbConn *pgx.Conn: nil
NilConn == 0

\* a goroutine with no request
IdleHandler ==
    [pc |-> "idle", route |-> "none", method |-> "none", err |-> FALSE,
     code |-> 0, executed |-> "none"]

\* path.Base of a non-empty path
Base(n) == n[Len(n)]

ImgPath(base) == <<"img", base>>

\* os.Remove(path).  ImgPath of the empty name is the directory "img/"
\* itself: removing it is an rmdir, which fails on a directory that holds a
\* file.  A file that does not exist cannot be removed either.
RemoveFails(path, ok) ==
    \/ ~ok
    \/ path[2] = NoImg /\ (blobs # {} \/ ~dirExists)
    \/ path[2] # NoImg /\ path[2] \notin blobs

RmErr(path, ok) == IF RemoveFails(path, ok) THEN "err" ELSE "nil"

OsRemove(path, ok) ==
    /\ blobs' = IF RemoveFails(path, ok) THEN blobs ELSE blobs \ {path[2]}
    /\ dirExists' = IF ~RemoveFails(path, ok) /\ path[2] = NoImg THEN FALSE
                    ELSE dirExists

CopyOutcomes == {"create_fail", "copy_fail", "ok"}

\* the name copyImg generates: the second of the clock and the base name
GenName(n) == <<now, Base(n)>>

\* copyImg whose failed io.Copy leaves the file it created
copyImg_NoRemove(n, out, rmok) ==
    LET g == GenName(n) IN
    IF out = "create_fail" \/ ~dirExists
    THEN [img |-> NoImg, err |-> TRUE, blobs |-> blobs]
    ELSE IF out = "copy_fail"
    THEN [img |-> NoImg, err |-> TRUE, blobs |-> blobs \cup {g}]
    ELSE [img |-> g, err |-> FALSE, blobs |-> blobs \cup {g}]

\* copyImg(name, r): the generated name, the error and the blobs afterwards.
\* os.Create truncates a file that exists; a failed io.Copy removes the file.
copyImg(n, out, rmok) ==
    LET g == GenName(n) IN
    IF out = "create_fail" \/ ~dirExists
    THEN [img |-> NoImg, err |-> TRUE, blobs |-> blobs]
    ELSE IF out = "copy_fail"
    THEN [img |-> NoImg, err |-> TRUE,
          blobs |-> IF rmok THEN blobs \ {g} ELSE blobs \cup {g}]
    ELSE [img |-> g, err |-> FALSE, blobs |-> blobs \cup {g}]

Goto(p, l) == [frame EXCEPT ![p].pc = l]

Return(p, r, e) ==
    [frame EXCEPT ![p] = IdleFrame(frame[p].op, r, frame[p].commitErr, e)]

NewCall(o, l) == [IdleFrame(o, "none", FALSE, "none") EXCEPT !.pc = l]

\* rows another caller's open transaction has locked or is about to write
Pending(p) == UNION {tx[q].old \cup tx[q].new : q \in Callers \ {p}}

\* the table's constraints: id is the primary key, name is unique
Clash(r, rs) == \E s \in rs : s.id = r.id \/ s.name = r.name

\* the names copyImg can generate, and the rows of the table items
\* (id, name, descr, price, img)
ImgNames == (0..MaxTime) \X {Base(n) : n \in OrigNames}

Rows ==
    [id : IDs, name : Names, descr : {Null} \cup Descrs,
     price : AddPrices \cup ModPrices, img : {NoImg} \cup ImgNames]

PCs ==
    {"idle", "add_write", "add_insert", "del_select", "del_delete", "del_commit",
     "del_rm", "mod_write", "mod_select", "mod_update", "mod_commit", "mod_rm"}

TypeOK ==
    /\ rows \subseteq Rows
    /\ blobs \subseteq ImgNames
    /\ dirExists \in BOOLEAN
    /\ now \in 0..MaxTime
    /\ \A p \in Callers :
         /\ frame[p].pc \in PCs
         /\ frame[p].op \in {"none", "Add", "Del", "Mod"}
         /\ frame[p].commitErr \in BOOLEAN
         /\ frame[p].rmErr \in {"none", "nil", "err"}
         /\ frame[p].img \in {NoImg} \cup ImgNames
         /\ frame[p].newImg \in {NoImg} \cup ImgNames
         /\ frame[p].newImgPath \in {NoPath, ImgPath(NoImg)}
         /\ frame[p].imgs \subseteq ImgNames
         /\ tx[p].old \subseteq rows
         /\ tx[p].new \subseteq Rows

\* ---------------------------------------------------------------- Init
Init ==
    /\ rows = {}
    /\ blobs = {}
    /\ dirExists = TRUE
    /\ now = 0
    /\ frame = [p \in Callers |-> IdleFrame("none", "none", FALSE, "none")]
    /\ tx = [p \in Callers |-> NoTx]
    /\ price = 0
    /\ call = NoCall
    /\ dbLock = FreeLock
    /\ dbConn = NilConn
    /\ handler = [h \in Handlers |-> IdleHandler]

\* time.Now() moves to the next second
Tick ==
    /\ now < MaxTime
    /\ now' = now + 1
    /\ UNCHANGED <<rows, blobs, dirExists, frame, tx>>
    /\ UNCHANGED <<text, server>>

\* ----------------------------------------------------------------- Add
AddItems ==
    [ID : {NilInt, 1}, Name : Names, Descr : {NilStr} \cup Descrs,
     Price : AddPrices, ImgName : {NilPath} \cup OrigNames]

AddCall(p, items) ==
    /\ frame[p].pc = "idle"
    /\ \E item \in items :
         frame' = [frame EXCEPT ![p] = [NewCall("Add", "add_write") EXCEPT !.it = item]]
    /\ UNCHANGED <<rows, blobs, dirExists, now, tx>>
    /\ UNCHANGED <<text, server>>

\* AddWritten with the error of copyImg ignored: the call goes on to the INSERT
AddWritten_IgnoreErr(p, r) ==
    [frame EXCEPT ![p].pc = "add_insert", ![p].img = r.img]

\* if it.Img.Reader != nil { img, err = copyImg(...); if err != nil { return err } }
AddWritten(p, r) ==
    IF r.err THEN Return(p, "AssetWriteFailed", "none")
    ELSE [frame EXCEPT ![p].pc = "add_insert", ![p].img = r.img]

AddWrite(p) ==
    /\ frame[p].pc = "add_write"
    /\ IF frame[p].it.ImgName # NilPath
       THEN \E out \in CopyOutcomes, rmok \in BOOLEAN :
              LET r == copyImg(frame[p].it.ImgName, out, rmok) IN
              /\ blobs' = r.blobs
              /\ frame' = AddWritten(p, r)
       ELSE /\ frame' = Goto(p, "add_insert")
            /\ UNCHANGED blobs
    /\ UNCHANGED <<rows, dirExists, now, tx>>
    /\ UNCHANGED <<text, server>>

\* the row of INSERT INTO items (name, price[, img][, descr]); the id is
\* the store's
AddRow(p, nid) ==
    [id |-> nid, name |-> frame[p].it.Name,
     descr |-> IF frame[p].it.Descr = NilStr THEN Null ELSE frame[p].it.Descr,
     price |-> frame[p].it.Price, img |-> frame[p].img]

\* AddFailed returning the error of os.Remove when the removal fails
AddFailed_ReturnsRmErr(p, e, rmok) ==
    IF frame[p].img # NoImg
    THEN /\ OsRemove(ImgPath(frame[p].img), rmok)
         /\ frame' = Return(p, IF RemoveFails(ImgPath(frame[p].img), rmok)
                                THEN "RemoveFailed" ELSE e,
                            RmErr(ImgPath(frame[p].img), rmok))
    ELSE /\ UNCHANGED <<blobs, dirExists>>
         /\ frame' = Return(p, e, "none")

\* AddFailed without the removal of the written asset
AddFailed_NoCleanup(p, e, rmok) ==
    /\ UNCHANGED <<blobs, dirExists>>
    /\ frame' = Return(p, e, "none")

\* if err != nil { if img != "" { os.Remove(imgPath) }; return err }
AddFailed(p, e, rmok) ==
    IF frame[p].img # NoImg
    THEN /\ OsRemove(ImgPath(frame[p].img), rmok)
         /\ frame' = Return(p, e, RmErr(ImgPath(frame[p].img), rmok))
    ELSE /\ UNCHANGED <<blobs, dirExists>>
         /\ frame' = Return(p, e, "none")

AddInsert(p) ==
    /\ frame[p].pc = "add_insert"
    /\ \E fail \in BOOLEAN, rmok \in BOOLEAN, nid \in IDs :
         LET r == AddRow(p, nid) IN
         /\ ~Clash(r, Pending(p))
         /\ nid \notin {s.id : s \in rows} \/ IDs \subseteq {s.id : s \in rows}
         /\ IF fail \/ Clash(r, rows)
            THEN /\ AddFailed(p, IF fail THEN "StoreUnavailable"
                                 ELSE "ConstraintViolation", rmok)
                 /\ UNCHANGED rows
            ELSE /\ rows' = rows \cup {r}
                 /\ frame' = Return(p, "nil", "none")
                 /\ UNCHANGED <<blobs, dirExists>>
    /\ UNCHANGED <<now, tx>>
    /\ UNCHANGED <<text, server>>

\* ----------------------------------------------------------------- Del
Matching(is, ns) == {r \in rows : r.id \in is \/ r.name \in ns}

DelKeys == [ids : SUBSET IDs, names : SUBSET Names]

DelCall(p, keysets) ==
    /\ frame[p].pc = "idle"
    /\ \E k \in keysets :
         frame' = [frame EXCEPT ![p] =
                     [NewCall("Del", "del_select") EXCEPT
                        !.ids = k.ids, !.names = k.names]]
    /\ UNCHANGED <<rows, blobs, dirExists, now, tx>>
    /\ UNCHANGED <<text, server>>

\* DelSelect without the early return for two empty key sets
DelSelect_NoEarlyReturn(p) ==
    /\ frame[p].pc = "del_select"
    /\ \E fail \in BOOLEAN :
         frame' =
           IF fail THEN Return(p, "StoreUnavailable", "none")
           ELSE [frame EXCEPT
                   ![p].pc = "del_delete",
                   ![p].imgs = {r.img : r \in Matching(frame[p].ids, frame[p].names)}
                                 \ {NoImg}]
    /\ UNCHANGED <<rows, blobs, dirExists, now, tx>>
    /\ UNCHANGED <<text, server>>

\* len(ids) == 0 && len(names) == 0; db.Begin; SELECT img; rows.Scan
DelSelect(p) ==
    /\ frame[p].pc = "del_select"
    /\ IF frame[p].ids = {} /\ frame[p].names = {}
       THEN frame' = Return(p, "nil", "none")
       ELSE \E fail \in BOOLEAN :
              frame' =
                IF fail THEN Return(p, "StoreUnavailable", "none")
                ELSE [frame EXCEPT
                        ![p].pc = "del_delete",
                        ![p].imgs = {r.img : r \in Matching(frame[p].ids, frame[p].names)}
                                      \ {NoImg}]
    /\ UNCHANGED <<rows, blobs, dirExists, now, tx>>
    /\ UNCHANGED <<text, server>>

DelDelete(p) ==
    /\ frame[p].pc = "del_delete"
    /\ LET m == Matching(frame[p].ids, frame[p].names) IN
       /\ m \cap Pending(p) = {}
       /\ \E fail \in BOOLEAN :
            IF fail
            THEN /\ frame' = Return(p, "StoreUnavailable", "none")
                 /\ UNCHANGED tx
            ELSE /\ frame' = Goto(p, "del_commit")
                 /\ tx' = [tx EXCEPT ![p] = [old |-> m, new |-> {}]]
    /\ UNCHANGED <<rows, blobs, dirExists, now>>
    /\ UNCHANGED <<text, server>>

\* tx.Commit(ctx), its error dropped: the transaction's writes are applied,
\* or lost when the commit fails; the call goes on either way
Commit(p, fail, l) ==
    /\ rows' = IF fail THEN rows ELSE (rows \ tx[p].old) \cup tx[p].new
    /\ tx' = [tx EXCEPT ![p] = NoTx]
    /\ frame' = [frame EXCEPT ![p].pc = l, ![p].commitErr = fail]

DelCommit(p) ==
    /\ frame[p].pc = "del_commit"
    /\ \E fail \in BOOLEAN : Commit(p, fail, "del_rm")
    /\ UNCHANGED <<blobs, dirExists, now>>
    /\ UNCHANGED <<text, server>>

\* for _, v := range imgs { os.Remove(v) }; return nil
DelRemove(p) ==
    /\ frame[p].pc = "del_rm"
    /\ IF frame[p].imgs = {}
       THEN /\ frame' = Return(p, "nil", frame[p].rmErr)
            /\ UNCHANGED <<blobs, dirExists>>
       ELSE \E v \in frame[p].imgs, ok \in BOOLEAN :
              /\ OsRemove(ImgPath(v), ok)
              /\ frame' = [frame EXCEPT ![p].imgs = @ \ {v},
                                        ![p].rmErr = RmErr(ImgPath(v), ok)]
    /\ UNCHANGED <<rows, now, tx>>
    /\ UNCHANGED <<text, server>>

\* ----------------------------------------------------------------- Mod
\* the columns of the UPDATE's SET list
set(it) ==
    (IF it.ID # NilInt THEN {"id"} ELSE {})
    \cup (IF it.Name # NilStr THEN {"name"} ELSE {})
    \cup (IF it.Price # NilInt THEN {"price"} ELSE {})
    \cup (IF it.ImgName # NilPath THEN {"img"} ELSE {})
    \cup (IF it.Descr # NilStr THEN {"descr"} ELSE {})

ModItems ==
    {i \in [ID : {NilInt, 2}, Name : {NilStr, "b"}, Descr : {NilStr, ""} \cup Descrs,
            Price : {NilInt} \cup ModPrices,
            ImgName : {NilPath, EmptyPath} \cup OrigNames] :
       Cardinality(set(i)) <= MaxSet}

\* what ParseItem hands to Mod: an id >= 0, or -1 and a name
ModKeys ==
    [id : IDs, name : {""}] \cup [id : {NilInt}, name : Names]

ModCall(p, items, keys) ==
    /\ frame[p].pc = "idle"
    /\ \E item \in items, k \in keys :
         frame' = [frame EXCEPT ![p] =
                     [NewCall("Mod", "mod_write") EXCEPT
                        !.it = item, !.id = k.id, !.name = k.name]]
    /\ UNCHANGED <<rows, blobs, dirExists, now, tx>>
    /\ UNCHANGED <<text, server>>

\* newImg, err = copyImg(...); newImgPath = util.ImgPath(img)
ModWritten(p, r) ==
    IF r.err THEN Return(p, "AssetWriteFailed", "none")
    ELSE [frame EXCEPT ![p].pc = "mod_select",
                       ![p].newImg = r.img,
                       ![p].newImgPath = ImgPath(frame[p].img)]

ModWrite(p) ==
    /\ frame[p].pc = "mod_write"
    /\ IF frame[p].it.ImgName \notin {NilPath, EmptyPath}
       THEN \E out \in CopyOutcomes, rmok \in BOOLEAN :
              LET r == copyImg(frame[p].it.ImgName, out, rmok) IN
              /\ blobs' = r.blobs
              /\ frame' = ModWritten(p, r)
       ELSE /\ frame' = Goto(p, "mod_select")
            /\ UNCHANGED blobs
    /\ UNCHANGED <<rows, dirExists, now, tx>>
    /\ UNCHANGED <<text, server>>

\* rmImg(); return err
rmImg(p, e, ok) ==
    IF frame[p].newImgPath # NoPath
    THEN /\ OsRemove(frame[p].newImgPath, ok)
         /\ frame' = Return(p, e, RmErr(frame[p].newImgPath, ok))
    ELSE /\ UNCHANGED <<blobs, dirExists>>
         /\ frame' = Return(p, e, "none")

\* WHERE id = $n, or WHERE name = $n
Where(p) ==
    IF frame[p].id >= 0 THEN {r \in rows : r.id = frame[p].id}
    ELSE {r \in rows : r.name = frame[p].name}

\* db.Begin and, when the image changes, SELECT img ... Scan(&img): img is
\* a string, and scanning NULL into a string is an error
ModSelect(p) ==
    /\ frame[p].pc = "mod_select"
    /\ \E out \in {"begin_fail", "select_fail", "ok"}, rmok \in BOOLEAN :
         IF out = "begin_fail"
         THEN /\ frame' = Return(p, "StoreUnavailable", "none")
              /\ UNCHANGED <<blobs, dirExists>>
         ELSE IF frame[p].it.ImgName = NilPath
         THEN /\ frame' = Goto(p, "mod_update")
              /\ UNCHANGED <<blobs, dirExists>>
         ELSE IF out = "select_fail"
         THEN rmImg(p, "StoreUnavailable", rmok)
         ELSE IF \E r \in Where(p) : r.img = NoImg
         THEN rmImg(p, "ScanNull", rmok)
         ELSE /\ frame' = [frame EXCEPT
                             ![p].pc = "mod_update",
                             ![p].img = IF Where(p) = {} THEN @
                                        ELSE (CHOOSE r \in Where(p) : TRUE).img]
              /\ UNCHANGED <<blobs, dirExists>>
    /\ UNCHANGED <<rows, now, tx>>
    /\ UNCHANGED <<text, server>>

\* an UPDATE that also resets descr when the SET list does not name it
Updated_ResetsDescr(p, r) ==
    LET it == frame[p].it IN
    [id |-> IF it.ID # NilInt THEN it.ID ELSE r.id,
     name |-> IF it.Name # NilStr THEN it.Name ELSE r.name,
     price |-> IF it.Price # NilInt THEN it.Price ELSE r.price,
     img |-> IF it.ImgName = NilPath THEN r.img
             ELSE IF it.ImgName = EmptyPath THEN NoImg
             ELSE frame[p].newImg,
     descr |-> IF it.Descr = NilStr \/ it.Descr = "" THEN Null
               ELSE it.Descr]

\* the row after UPDATE items SET ... : the columns of the SET list change
Updated(p, r) ==
    LET it == frame[p].it IN
    [id |-> IF it.ID # NilInt THEN it.ID ELSE r.id,
     name |-> IF it.Name # NilStr THEN it.Name ELSE r.name,
     price |-> IF it.Price # NilInt THEN it.Price ELSE r.price,
     img |-> IF it.ImgName = NilPath THEN r.img
             ELSE IF it.ImgName = EmptyPath THEN NoImg
             ELSE frame[p].newImg,
     descr |-> IF it.Descr = NilStr THEN r.descr
               ELSE IF it.Descr = "" THEN Null
               ELSE it.Descr]

\* the error of tx.Exec(UPDATE items SET <set> WHERE ...): an empty SET list
\* is a syntax error
UpdateErr(p, fail, m, n) ==
    IF fail THEN "StoreUnavailable"
    ELSE IF set(frame[p].it) = {} THEN "SyntaxError"
    ELSE IF \E r \in n : Clash(r, rows \ m) THEN "ConstraintViolation"
    ELSE "nil"

ModUpdate(p) ==
    /\ frame[p].pc = "mod_update"
    /\ LET m == Where(p)
           n == {Updated(p, r) : r \in m}
       IN
       /\ m \cap Pending(p) = {}
       /\ \A r \in n : ~Clash(r, Pending(p))
       /\ \E fail \in BOOLEAN, rmok \in BOOLEAN :
            IF UpdateErr(p, fail, m, n) # "nil"
            THEN /\ rmImg(p, UpdateErr(p, fail, m, n), rmok)
                 /\ UNCHANGED tx
            ELSE /\ frame' = Goto(p, "mod_commit")
                 /\ tx' = [tx EXCEPT ![p] = [old |-> m, new |-> n]]
                 /\ UNCHANGED <<blobs, dirExists>>
    /\ UNCHANGED <<rows, now>>
    /\ UNCHANGED <<text, server>>

ModCommit(p) ==
    /\ frame[p].pc = "mod_commit"
    /\ \E fail \in BOOLEAN : Commit(p, fail, "mod_rm")
    /\ UNCHANGED <<blobs, dirExists, now>>
    /\ UNCHANGED <<text, server>>

\* if img != "" { os.Remove(util.ImgPath(img)) }; return nil
ModRemoveOld(p) ==
    /\ frame[p].pc = "mod_rm"
    /\ IF frame[p].img # NoImg
       THEN \E ok \in BOOLEAN :
              /\ OsRemove(ImgPath(frame[p].img), ok)
              /\ frame' = Return(p, "nil", RmErr(ImgPath(frame[p].img), ok))
       ELSE /\ UNCHANGED <<blobs, dirExists>>
            /\ frame' = Return(p, "nil", "none")
    /\ UNCHANGED <<rows, now, tx>>
    /\ UNCHANGED <<text, server>>

\* -------------------------------------------------------- specifications
\* one caller, one call at a time
Next ==
    \/ Tick
    \/ AddCall("c1", AddItems)
    \/ AddWrite("c1")
    \/ AddInsert("c1")
    \/ DelCall("c1", DelKeys)
    \/ DelSelect("c1")
    \/ DelDelete("c1")
    \/ DelCommit("c1")
    \/ DelRemove("c1")
    \/ ModCall("c1", ModItems, ModKeys)
    \/ ModWrite("c1")
    \/ ModSelect("c1")
    \/ ModUpdate("c1")
    \/ ModCommit("c1")
    \/ ModRemoveOld("c1")

Spec == Init /\ [][Next]_vars

\* two callers at once, as two requests of the server or two runs of the
\* command; the calls are drawn from a smaller set of arguments
ConcAddItems == {i \in AddItems : i.ID = NilInt /\ i.Descr = NilStr /\ i.ImgName # NilPath}

ConcModItems == {i \in ModItems : set(i) = {"img"}}

ConcModKeys == {k \in ModKeys : k.id = 1}

ConcDelKeys == {k \in DelKeys : k.ids = {1} /\ k.names = {}}

NextConc ==
    \/ Tick
    \/ \E p \in Callers :
         \/ AddCall(p, ConcAddItems)
         \/ AddWrite(p)
         \/ AddInsert(p)
         \/ DelCall(p, ConcDelKeys)
         \/ DelSelect(p)
         \/ DelDelete(p)
         \/ DelCommit(p)
         \/ DelRemove(p)
         \/ ModCall(p, ConcModItems, ConcModKeys)
         \/ ModWrite(p)
         \/ ModSelect(p)
         \/ ModUpdate(p)
         \/ ModCommit(p)
         \/ ModRemoveOld(p)

SpecConc == Init /\ [][NextConc]_vars

\* ----------------------------------------------------------------- text
\* A string is the sequence of its characters.  Go's int is modelled
\* IntBits wide, in two's complement.
IntBits == 16

MaxInt == 2^(IntBits - 1) - 1

MinInt == 0 - 2^(IntBits - 1)

\* the value an int holds after an operation whose exact result is x
Wrap(x) == ((x - MinInt) % 2^IntBits) + MinInt

DigitChars == <<"0", "1", "2", "3", "4", "5", "6", "7", "8", "9">>

IsDigit(c) == \E i \in 1..10 : DigitChars[i] = c

DigitVal(c) == (CHOOSE i \in 1..10 : DigitChars[i] = c) - 1

AllDigits(s) == \A i \in 1..Len(s) : IsDigit(s[i])

RECURSIVE DigitsVal(_)
DigitsVal(d) ==
    IF d = <<>> THEN 0
    ELSE 10 * DigitsVal(SubSeq(d, 1, Len(d) - 1)) + DigitVal(d[Len(d)])

\* strconv.Atoi(s): an optional sign and decimal digits; ErrSyntax for
\* anything else, ErrRange for a value an int cannot hold
Atoi(s) ==
    LET signed == s # <<>> /\ s[1] \in {"+", "-"}
        d == IF signed THEN Tail(s) ELSE s
        v == IF s # <<>> /\ s[1] = "-" THEN 0 - DigitsVal(d) ELSE DigitsVal(d)
    IN
    IF d = <<>> \/ ~AllDigits(d) THEN [n |-> 0, err |-> "ErrSyntax"]
    ELSE IF v > MaxInt THEN [n |-> MaxInt, err |-> "ErrRange"]
    ELSE IF v < MinInt THEN [n |-> MinInt, err |-> "ErrRange"]
    ELSE [n |-> v, err |-> "nil"]

RECURSIVE Digits(_)
Digits(n) ==
    IF n < 10 THEN <<DigitChars[n + 1]>>
    ELSE Append(Digits(n \div 10), DigitChars[(n % 10) + 1])

\* strconv.Itoa(n)
Itoa(n) == IF n < 0 THEN <<"-">> \o Digits(0 - n) ELSE Digits(n)

\* the strings of at most k characters of cs
RECURSIVE Strings(_, _)
Strings(cs, k) ==
    IF k = 0 THEN {<<>>}
    ELSE LET S == Strings(cs, k - 1) IN
         S \cup {Append(t, c) : t \in S, c \in cs}

\* ---------------------------------------------------------------- Price
MaxLen == 5

\* the characters of the price texts: digits, the point, and a sign
PriceChars == {"0", "3", "5", ".", "-"}

PriceTexts == Strings(PriceChars, MaxLen)

\* the values a Price variable starts from: a flag's default, a stored
\* price, a line total
PriceInputs ==
    {MinInt, MinInt + 1, 0 - 100, 0 - 99, 0 - 10, 0 - 9, 0 - 1,
     0, 9, 10, 99, 100, MaxInt}

\* regexp ^([1-9][0-9]*|0)(\.[0-9][0-9]?)?$ : FindStringSubmatch(s)
priceRE(s) ==
    LET dots == {i \in 1..Len(s) : s[i] = "."}
        k == IF dots = {} THEN Len(s) + 1
             ELSE CHOOSE i \in dots : \A j \in dots : i <= j
        m1 == SubSeq(s, 1, k - 1)
        m2 == SubSeq(s, k, Len(s))
    IN
    IF /\ m1 # <<>>
       /\ AllDigits(m1)
       /\ m1[1] # "0" \/ Len(m1) = 1
       /\ m2 = <<>> \/ (Len(m2) \in 2..3 /\ AllDigits(Tail(m2)))
    THEN [ok |-> TRUE, m1 |-> m1, m2 |-> m2]
    ELSE [ok |-> FALSE, m1 |-> <<>>, m2 |-> <<>>]

\* strings.Replace(s, c, "", 1)
RemoveFirst(s, c) ==
    IF \E i \in 1..Len(s) : s[i] = c
    THEN LET k == CHOOSE i \in 1..Len(s) :
                    s[i] = c /\ \A j \in 1..(i - 1) : s[j] # c
         IN SubSeq(s, 1, k - 1) \o SubSeq(s, k + 1, Len(s))
    ELSE s

\* strings.Repeat(c, k)
Repeat(c, k) == [i \in 1..k |-> c]

\* a subprice left as the text gave it
Padded_None(subprice) == subprice

\* subprice with two digits where the text gave one
Padded(subprice) == subprice \o Repeat("0", 2 - Len(subprice))

\* Set storing the number before it looks at the error of Atoi
PriceSet_StoresFirst(p, s) ==
    LET match == priceRE(s)
        subprice == Padded(RemoveFirst(match.m2, "."))
        r == Atoi(match.m1 \o subprice)
    IN
    IF ~match.ok THEN [err |-> "invalid price", p |-> p]
    ELSE [err |-> r.err, p |-> r.n]

\* (p *Price).Set(s): the error, and the value of *p afterwards
PriceSet(p, s) ==
    LET match == priceRE(s)
        subprice == Padded(RemoveFirst(match.m2, "."))
        r == Atoi(match.m1 \o subprice)
    IN
    IF ~match.ok THEN [err |-> "invalid price", p |-> p]
    ELSE IF r.err # "nil" THEN [err |-> r.err, p |-> p]
    ELSE [err |-> "nil", p |-> r.n]

\* String without the zero that pads a value below 10
PriceString_NoPad(p) ==
    LET n == IF p < 0 THEN Wrap(p * (0 - 1)) ELSE p
        s == Itoa(n)
        t == IF n < 100 THEN <<"0", ".">> \o s
             ELSE SubSeq(s, 1, Len(s) - 2) \o <<".">> \o SubSeq(s, Len(s) - 1, Len(s))
    IN
    [str |-> IF p < 0 THEN <<"-">> \o t ELSE t, p |-> p]

\* (p *Price).String(): the text, and the value of *p afterwards
PriceString(p) ==
    LET n == IF p < 0 THEN Wrap(p * (0 - 1)) ELSE p
        s == Itoa(n)
        t == IF n < 10 THEN <<"0", ".", "0">> \o s
             ELSE IF n < 100 THEN <<"0", ".">> \o s
             ELSE SubSeq(s, 1, Len(s) - 2) \o <<".">> \o SubSeq(s, Len(s) - 1, Len(s))
    IN
    [str |-> IF p < 0 THEN <<"-">> \o t ELSE t, p |-> p]

InitPrice ==
    /\ rows = {}
    /\ blobs = {}
    /\ dirExists = TRUE
    /\ now = 0
    /\ frame = [p \in Callers |-> IdleFrame("none", "none", FALSE, "none")]
    /\ tx = [p \in Callers |-> NoTx]
    /\ price \in PriceInputs
    /\ call = NoCall
    /\ dbLock = FreeLock
    /\ dbConn = NilConn
    /\ handler = [h \in Handlers |-> IdleHandler]

\* a caller whose Set failed gives up: it dies or answers bad request
GaveUp == call.op = "Set" /\ call.err # "nil"

\* p.Set(s), with s any text or the text the last String returned
SetCall ==
    /\ ~GaveUp
    /\ \E s \in PriceTexts \cup (IF call.op = "String" THEN {call.str} ELSE {}) :
         LET r == PriceSet(price, s) IN
         /\ price' = r.p
         /\ call' = [op |-> "Set", arg |-> s, err |-> r.err]
    /\ UNCHANGED <<store, server>>

StringCall ==
    /\ ~GaveUp
    /\ LET r == PriceString(price) IN
       /\ price' = r.p
       /\ call' = [op |-> "String", arg |-> price, str |-> r.str]
    /\ UNCHANGED <<store, server>>

NextPrice ==
    \/ SetCall
    \/ StringCall

SpecPrice == InitPrice /\ [][NextPrice]_vars

\* ------------------------------------------------------------ ParseItem
\* the characters of the address texts
ItemChars == {"0", "7", "-", "a", ":"}

NamePrefix == <<"n", "a", "m", "e">>

\* the arguments of item del and item mod: short texts, bare or after "name:"
ItemTexts ==
    Strings(ItemChars, MaxLen)
      \cup {NamePrefix \o <<":">> \o t : t \in Strings(ItemChars, MaxLen)}

\* strings.Cut(s, c)
Cut(s, c) ==
    IF \E i \in 1..Len(s) : s[i] = c
    THEN LET k == CHOOSE i \in 1..Len(s) :
                    s[i] = c /\ \A j \in 1..(i - 1) : s[j] # c
         IN [pre |-> SubSeq(s, 1, k - 1), suf |-> SubSeq(s, k + 1, Len(s)),
             ok |-> TRUE]
    ELSE [pre |-> s, suf |-> <<>>, ok |-> FALSE]

ParseItem(item) ==
    LET c == Cut(item, ":")
        a == Atoi(item)
    IN
    IF c.ok /\ c.pre = NamePrefix
    THEN [id |-> 0 - 1, name |-> c.suf, err |-> "nil"]
    ELSE IF a.err = "nil" THEN [id |-> a.n, name |-> <<>>, err |-> "nil"]
    ELSE IF a.err # "ErrSyntax" THEN [id |-> 0 - 1, name |-> <<>>, err |-> a.err]
    ELSE [id |-> 0 - 1, name |-> item, err |-> "nil"]

InitParse ==
    /\ rows = {}
    /\ blobs = {}
    /\ dirExists = TRUE
    /\ now = 0
    /\ frame = [p \in Callers |-> IdleFrame("none", "none", FALSE, "none")]
    /\ tx = [p \in Callers |-> NoTx]
    /\ price = 0
    /\ call = NoCall
    /\ dbLock = FreeLock
    /\ dbConn = NilConn
    /\ handler = [h \in Handlers |-> IdleHandler]

\* id, name, err := iutil.ParseItem(a)
ParseItemCall ==
    /\ call.op = "none"
    /\ \E a \in ItemTexts :
         LET r == ParseItem(a) IN
         call' = [op |-> "ParseItem", arg |-> a, id |-> r.id, name |-> r.name,
                  err |-> r.err]
    /\ UNCHANGED <<store, price, server>>

\* cmdDel: the keys handed to Del for one argument
cmdDel ==
    /\ call.op = "ParseItem"
    /\ call.err = "nil"
    /\ call' = [op |-> "Del", arg |-> call.arg,
                ids |-> IF call.id >= 0 THEN {call.id} ELSE {},
                names |-> IF call.id >= 0 THEN {} ELSE {call.name}]
    /\ UNCHANGED <<store, price, server>>

\* cmdMod: iutil.Mod(db, id, name, &it), whose WHERE is by id when id >= 0
\* and by name otherwise
cmdMod ==
    /\ call.op = "ParseItem"
    /\ call.err = "nil"
    /\ call' = [op |-> "Mod", arg |-> call.arg, id |-> call.id, name |-> call.name,
                where |-> IF call.id >= 0 THEN "id" ELSE "name"]
    /\ UNCHANGED <<store, price, server>>

NextParse ==
    \/ ParseItemCall
    \/ cmdDel
    \/ cmdMod

SpecParse == InitParse /\ [][NextParse]_vars

\* ------------------------------------------------------------------ Get
ByID == 0

ByName == 1

\* the order of the name column
Collation == <<"a", "b">>

NameRank(n) == CHOOSE i \in 1..Len(Collation) : Collation[i] = n

\* the key of ORDER BY id, of ORDER BY name
OrderKey(r, ord) == IF ord = ByID THEN r.id ELSE NameRank(r.name)

\* the rows of S in the order of ORDER BY
RECURSIVE Ordered(_, _)
Ordered(S, ord) ==
    IF S = {} THEN <<>>
    ELSE LET r == CHOOSE r \in S :
                    \A q \in S : OrderKey(r, ord) <= OrderKey(q, ord)
         IN <<r>> \o Ordered(S \ {r}, ord)

\* WHERE id = $1 OR ... OR name = $n; no WHERE when there is no key
Selected(is, ns) ==
    IF is = {} /\ ns = {} THEN rows
    ELSE {r \in rows : r.id \in is \/ r.name \in ns}

\* rows.Scan(&it.ID, &it.Name, &it.Descr, &it.Price, &it.Img.Name): a NULL
\* leaves the pointer nil
Scan(r) ==
    [ID |-> r.id, Name |-> r.name,
     Descr |-> IF r.descr = Null THEN NilStr ELSE r.descr,
     Price |-> r.price,
     ImgName |-> IF r.img = NoImg THEN NilPath ELSE r.img]

\* the result of the query: db.Query may fail; the rows that arrive before
\* the stream ends are scanned, and rows.Err() is not looked at
GetOutcomes == {"query_fail", "rows_fail", "ok"}

Get(is, ns, ord, out, k) ==
    LET all == Ordered(Selected(is, ns), ord)
        got == IF out = "rows_fail" /\ k < Len(all) THEN SubSeq(all, 1, k) ELSE all
    IN
    IF out = "query_fail" THEN [items |-> <<>>, err |-> "StoreUnavailable"]
    ELSE [items |-> [i \in 1..Len(got) |-> Scan(got[i])], err |-> "nil"]

\* the tables of at most two rows
Tables ==
    {{}} \cup {T \in {{r1, r2} : r1 \in Rows, r2 \in Rows} :
                 \A r \in T : ~Clash(r, T \ {r})}

InitGet ==
    /\ rows \in Tables
    /\ blobs = {r.img : r \in rows} \ {NoImg}
    /\ dirExists = TRUE
    /\ now = MaxTime
    /\ frame = [p \in Callers |-> IdleFrame("none", "none", FALSE, "none")]
    /\ tx = [p \in Callers |-> NoTx]
    /\ price = 0
    /\ call = NoCall
    /\ dbLock = FreeLock
    /\ dbConn = NilConn
    /\ handler = [h \in Handlers |-> IdleHandler]

GetCall ==
    /\ call.op = "none"
    /\ \E is \in SUBSET IDs, ns \in SUBSET Names, ord \in {ByID, ByName},
          out \in GetOutcomes, k \in 0..(MaxId - 1) :
         LET r == Get(is, ns, ord, out, k) IN
         call' = [op |-> "Get", ids |-> is, names |-> ns, ord |-> ord,
                  items |-> r.items, err |-> r.err]
    /\ UNCHANGED <<store, price, server>>

NextGet == GetCall

SpecGet == InitGet /\ [][NextGet]_vars

\* ------------------------------------------------------------- checkout
Delivery == 500

MaxQty == 100

\* the submitted quantities: the numerals around the limits, each also
\* with a sign and with a leading zero, and the empty text
QtyTexts ==
    LET ns == {0, 1, 2, MaxQty, MaxQty + 1} IN
    {<<>>} \cup {Itoa(n) : n \in ns}
           \cup {<<"-">> \o Itoa(n) : n \in ns}
           \cup {<<"0">> \o Itoa(n) : n \in ns}

\* the form keys: the ids of the items and a key with a sign
KeyTexts == {Itoa(i) : i \in 1..Len(Collation)} \cup {<<"-", "1">>}

\* r.PostForm without the keys name, contact, address, comments: at most
\* two entries
Forms ==
    UNION {[K -> QtyTexts] : K \in {K \in SUBSET KeyTexts : Cardinality(K) <= 2}}

\* the orders in which range r.PostForm may visit the keys K
Visits(K) ==
    {ks \in [1..Cardinality(K) -> K] : \A i, j \in 1..Cardinality(K) :
                                          ks[i] = ks[j] => i = j}

\* the stored prices of the items on sale
OrderPrices == {500, 1200}

\* the tables of the checkout: item i, named so that the order by name is
\* not the order by id
OrderTables ==
    {T \in SUBSET [id : 1..Len(Collation), name : Names, descr : {Null},
                   price : OrderPrices, img : {NoImg}] :
       /\ \A r \in T : r.name = Collation[Len(Collation) + 1 - r.id]
       /\ \A r \in T : ~Clash(r, T \ {r})}

\* regexp ^0|[1-9][0-9]*$ : FindString(s), the leftmost match, or ""
intRE(s) ==
    LET zero(i) == i = 1 /\ s[i] = "0"
        number(i) == /\ IsDigit(s[i])
                     /\ s[i] # "0"
                     /\ AllDigits(SubSeq(s, i + 1, Len(s)))
        starts == {i \in 1..Len(s) : zero(i) \/ number(i)}
        first == CHOOSE i \in starts : \A j \in starts : i <= j
    IN
    IF starts = {} THEN <<>>
    ELSE IF zero(first) THEN <<"0">>
    ELSE SubSeq(s, first, Len(s))

stoi(s) == Atoi(intRE(s))

\* for k := range r.PostForm: the ids and the quantities kept
RECURSIVE Entries(_, _, _)
Entries(form, ks, acc) ==
    IF Len(ks) = 0 THEN acc
    ELSE LET k == ks[1]
             id == stoi(k)
             n == stoi(form[k])
             rest == SubSeq(ks, 2, Len(ks))
         IN
         IF id.err # "nil" THEN Entries(form, rest, acc)
         ELSE IF n.n <= 0 \/ n.n > MaxQty \/ n.err # "nil"
         THEN Entries(form, rest, acc)
         ELSE Entries(form, rest,
                      [ids |-> acc.ids \cup {id.n},
                       ordered |-> [i \in acc.ids \cup {id.n} |->
                                      IF i = id.n THEN n.n ELSE acc.ordered[i]]])

\* ordered[id], the zero value for a key the map does not hold
Quantity(ordered, id) == IF id \in DOMAIN ordered THEN ordered[id] ELSE 0

\* p.Num = ordered[p.ID]; p.Total.Num = p.Price.Num * p.Num
Line(it, ordered) ==
    [ID |-> it.ID, Price |-> it.Price, Num |-> Quantity(ordered, it.ID),
     Total |-> Wrap(it.Price * Quantity(ordered, it.ID))]

\* for i := range page.Items: the lines of the checkout
RECURSIVE Lines(_, _)
Lines(items, ordered) ==
    IF Len(items) = 0 THEN <<>>
    ELSE Append(Lines(SubSeq(items, 1, Len(items) - 1), ordered),
                Line(items[Len(items)], ordered))

\* total += iutil.Price(p.Total.Num), over the lines
RECURSIVE Sum(_)
Sum(lines) ==
    IF Len(lines) = 0 THEN 0
    ELSE Wrap(Sum(SubSeq(lines, 1, Len(lines) - 1)) + lines[Len(lines)].Total)

InitOrder ==
    /\ rows \in OrderTables
    /\ blobs = {}
    /\ dirExists = TRUE
    /\ now = 0
    /\ frame = [p \in Callers |-> IdleFrame("none", "none", FALSE, "none")]
    /\ tx = [p \in Callers |-> NoTx]
    /\ price = 0
    /\ call = NoCall
    /\ dbLock = FreeLock
    /\ dbConn = NilConn
    /\ handler = [h \in Handlers |-> IdleHandler]

\* handleRoot for POST action=checkout
handleRoot ==
    /\ call.op = "none"
    /\ \E form \in Forms, out \in GetOutcomes, k \in 0..(Len(Collation) - 1) :
         \E ks \in Visits(DOMAIN form) :
           LET e == Entries(form, ks, [ids |-> {}, ordered |-> <<>>])
               g == Get(e.ids, {}, ByName, out, k)
               lines == Lines(g.items, e.ordered)
           IN
           call' = [op |-> "checkout", form |-> form, ids |-> e.ids,
                    ordered |-> e.ordered, err |-> g.err, items |-> lines,
                    total |-> IF g.err = "nil" THEN Wrap(Sum(lines) + Delivery)
                              ELSE 0]
    /\ UNCHANGED <<store, price, server>>

NextOrder == handleRoot

SpecOrder == InitOrder /\ [][NextOrder]_vars

\* ------------------------------------------------------------- copyImg
\* copyImg on its own: any directory, any second, any outcome of the write

\* the names copyImg is called with: an upload's path, a bare file name
CopyNames == OrigNames \cup {<<"y.png">>}

InitCopy ==
    /\ rows = {}
    /\ blobs \in SUBSET ((0..MaxTime) \X {Base(n) : n \in CopyNames})
    /\ dirExists \in BOOLEAN
    /\ ~dirExists => blobs = {}
    /\ now \in 0..MaxTime
    /\ frame = [p \in Callers |-> IdleFrame("none", "none", FALSE, "none")]
    /\ tx = [p \in Callers |-> NoTx]
    /\ price = 0
    /\ call = NoCall
    /\ dbLock = FreeLock
    /\ dbConn = NilConn
    /\ handler = [h \in Handlers |-> IdleHandler]

\* img, err = copyImg(name, r)
copyImgCall ==
    /\ \E n \in CopyNames, out \in CopyOutcomes, rmok \in BOOLEAN :
         LET r == copyImg(n, out, rmok) IN
         /\ blobs' = r.blobs
         /\ call' = [op |-> "copyImg", name |-> n, gen |-> GenName(n),
                     created |-> dirExists /\ out # "create_fail",
                     rmok |-> rmok, img |-> r.img, err |-> r.err]
    /\ UNCHANGED <<rows, dirExists, now, frame, tx, price, server>>

NextCopy ==
    \/ Tick
    \/ copyImgCall

SpecCopy == InitCopy /\ [][NextCopy]_vars

\* ---------------------------------------------------------- HTTP server
\* handleAdmin and handleRoot run in one goroutine per request.  Each calls
\* dbConnFix, which tests the shared connection under the read lock and
\* replaces it under the exclusive lock.

\* the connections DBConnect can return
MaxConns == 2

StatusOK == 200
StatusUnauthorized == 401
StatusInternalServerError == 500

Routes == {"admin", "root"}

Methods == {"GET", "POST"}

\* r.BasicAuth(): no header, an empty password, a name not in passwd, a
\* wrong password, a right one
Creds == {"none", "empty", "unknown", "wrong", "good"}

\* the Content-Type getForm sees: none, one it parses, one it rejects
ContentTypes == {"none", "form", "bad"}

\* r.FormValue("action")
Actions == {"chpass", "itemadd", "itemdel", "itemmod", "bad"}

At(h, l) == [handler EXCEPT ![h].pc = l]

\* http.Serve starts a goroutine that calls the handler of the route
Request(h) ==
    /\ handler[h].pc = "idle"
    /\ \E route \in Routes, m \in Methods :
         handler' = [handler EXCEPT ![h] =
                       [IdleHandler EXCEPT !.pc = "fix_rlock", !.route = route,
                                           !.method = m]]
    /\ UNCHANGED <<dbLock, dbConn>>
    /\ UNCHANGED <<store, text>>

\* dbLock.RLock() at pc l: the reader passes, or blocks at pc wait while a
\* writer has or waits for the lock
RLock(h, l, wait, next) ==
    /\ handler[h].pc = l
    /\ IF dbLock.w = "none"
       THEN /\ dbLock' = [dbLock EXCEPT !.r[h] = @ + 1]
            /\ handler' = At(h, next)
       ELSE /\ dbLock' = [dbLock EXCEPT !.rwait = @ \cup {h}]
            /\ handler' = At(h, wait)
    /\ UNCHANGED dbConn
    /\ UNCHANGED <<store, text>>

\* a reader that Unlock has released goes on, holding the read lock
RLocked(h, wait, next) ==
    /\ handler[h].pc = wait
    /\ h \notin dbLock.rwait
    /\ handler' = At(h, next)
    /\ UNCHANGED <<dbLock, dbConn>>
    /\ UNCHANGED <<store, text>>

\* where the handler goes on when dbConnFix has returned nil and
\* defer dbLock.RUnlock() is set
Fixed(h) == IF handler[h].route = "admin" THEN "auth" ELSE "items"

\* util.DBTest(dbConn) under the read lock: a nil connection fails, another
\* one answers the ping or does not
FixTest(h) ==
    /\ handler[h].pc = "fix_test"
    /\ \E ping \in BOOLEAN :
         handler' = At(h, IF dbConn # NilConn /\ ping THEN Fixed(h)
                          ELSE "fix_runlock")
    /\ UNCHANGED <<dbLock, dbConn>>
    /\ UNCHANGED <<store, text>>

\* dbLock.RUnlock()
RUnlock(h, l, next) ==
    /\ handler[h].pc = l
    /\ dbLock' = [dbLock EXCEPT !.r[h] = @ - 1]
    /\ handler' = IF next = "idle" THEN [handler EXCEPT ![h] = IdleHandler]
                  ELSE At(h, next)
    /\ UNCHANGED dbConn
    /\ UNCHANGED <<store, text>>

\* dbLock.Lock(), first half: take the writers' mutex, or queue for it (a
\* starving sync.Mutex is handed to the waiters in their order)
FixLock(h) ==
    /\ handler[h].pc = "fix_lock"
    /\ IF dbLock.w = "none"
       THEN /\ dbLock' = [dbLock EXCEPT !.w = h]
            /\ handler' = At(h, "fix_drain")
       ELSE /\ dbLock' = [dbLock EXCEPT !.wq = Append(@, h)]
            /\ handler' = At(h, "fix_lock_wait")
    /\ UNCHANGED dbConn
    /\ UNCHANGED <<store, text>>

FixLockHanded(h) ==
    /\ handler[h].pc = "fix_lock_wait"
    /\ dbLock.w = h
    /\ handler' = At(h, "fix_drain")
    /\ UNCHANGED <<dbLock, dbConn>>
    /\ UNCHANGED <<store, text>>

\* dbLock.Lock(), second half: wait until the readers have left
FixDrain(h) ==
    /\ handler[h].pc = "fix_drain"
    /\ \A g \in Handlers : dbLock.r[g] = 0
    /\ dbLock' = [dbLock EXCEPT !.excl = TRUE]
    /\ handler' = At(h, "fix_nil")
    /\ UNCHANGED dbConn
    /\ UNCHANGED <<store, text>>

\* dbConn = nil
FixNil(h) ==
    /\ handler[h].pc = "fix_nil"
    /\ dbConn' = NilConn
    /\ handler' = At(h, "fix_connect")
    /\ UNCHANGED dbLock
    /\ UNCHANGED <<store, text>>

\* dbConn, err = util.DBConnect(*dbFlag): a connection, or nil and an error
FixConnect(h) ==
    /\ handler[h].pc = "fix_connect"
    /\ \E c \in 0..MaxConns :
         /\ dbConn' = c
         /\ handler' = [handler EXCEPT ![h].pc = "fix_unlock",
                                       ![h].err = (c = NilConn)]
    /\ UNCHANGED dbLock
    /\ UNCHANGED <<store, text>>

\* a dbConnFix that returns nil after Unlock without taking the read lock
FixUnlock_NoRLock(h) ==
    /\ handler[h].pc = "fix_unlock"
    /\ dbLock' =
         [r |-> [g \in Handlers |->
                   IF g \in dbLock.rwait THEN dbLock.r[g] + 1 ELSE dbLock.r[g]],
          rwait |-> {},
          w |-> IF dbLock.wq = <<>> THEN "none" ELSE Head(dbLock.wq),
          excl |-> FALSE,
          wq |-> IF dbLock.wq = <<>> THEN <<>> ELSE Tail(dbLock.wq)]
    /\ handler' = At(h, IF handler[h].err THEN "fix_failed" ELSE Fixed(h))
    /\ UNCHANGED dbConn
    /\ UNCHANGED <<store, text>>

\* defer dbLock.Unlock(): the blocked readers get the read lock, the
\* writers' mutex goes to the first waiting writer; dbConnFix then returns
\* the error or goes on to RLock
FixUnlock(h) ==
    /\ handler[h].pc = "fix_unlock"
    /\ dbLock' =
         [r |-> [g \in Handlers |->
                   IF g \in dbLock.rwait THEN dbLock.r[g] + 1 ELSE dbLock.r[g]],
          rwait |-> {},
          w |-> IF dbLock.wq = <<>> THEN "none" ELSE Head(dbLock.wq),
          excl |-> FALSE,
          wq |-> IF dbLock.wq = <<>> THEN <<>> ELSE Tail(dbLock.wq)]
    /\ handler' = At(h, IF handler[h].err THEN "fix_failed" ELSE "fix_relock")
    /\ UNCHANGED dbConn
    /\ UNCHANGED <<store, text>>

\* if err := dbConnFix(); err != nil { ...; return }
FixFailed(h) ==
    /\ handler[h].pc = "fix_failed"
    /\ handler' = [handler EXCEPT ![h] = IdleHandler]
    /\ UNCHANGED <<dbLock, dbConn>>
    /\ UNCHANGED <<store, text>>

\* auth(w, r): the status it returns
auth(c, dbok) ==
    IF c \in {"none", "empty"} THEN StatusUnauthorized
    ELSE IF ~dbok THEN StatusInternalServerError
    ELSE IF c \in {"unknown", "wrong"} THEN StatusUnauthorized
    ELSE StatusOK

\* handleAdmin going on whatever auth returned
AfterAuth_Unchecked(h, code) == "form"

\* if code, err := auth(w, r); code != http.StatusOK { ...; return }
AfterAuth(h, code) == IF code # StatusOK THEN "runlock" ELSE "form"

AdminAuth(h) ==
    /\ handler[h].pc = "auth"
    /\ \E c \in Creds, dbok \in BOOLEAN :
         handler' = [handler EXCEPT ![h].code = auth(c, dbok),
                                    ![h].pc = AfterAuth(h, auth(c, dbok))]
    /\ UNCHANGED <<dbLock, dbConn>>
    /\ UNCHANGED <<store, text>>

\* getForm(w, r): whether it returns http.StatusOK
getForm(m, ct, parses) ==
    \/ ct = "none"
    \/ m = "POST" /\ ct = "form" /\ parses

\* if code, err := getForm(w, r); code != http.StatusOK { ...; return }
AdminForm(h) ==
    /\ handler[h].pc = "form"
    /\ \E ct \in ContentTypes, parses \in BOOLEAN :
         handler' = At(h, IF getForm(handler[h].method, ct, parses) THEN "action"
                          ELSE "runlock")
    /\ UNCHANGED <<dbLock, dbConn>>
    /\ UNCHANGED <<store, text>>

\* if r.Method == http.MethodPost { switch action { ... } }; a failure with
\* a status other than 200 ends the request
AdminAction(h) ==
    /\ handler[h].pc = "action"
    /\ IF handler[h].method = "POST"
       THEN \E a \in Actions, fatal \in BOOLEAN :
              handler' = [handler EXCEPT
                            ![h].executed = IF a = "bad" THEN "none" ELSE a,
                            ![h].pc = IF a = "bad" \/ fatal THEN "runlock"
                                      ELSE "items"]
       ELSE handler' = At(h, "items")
    /\ UNCHANGED <<dbLock, dbConn>>
    /\ UNCHANGED <<store, text>>

\* getItems and the template, then the return
Items(h) ==
    /\ handler[h].pc = "items"
    /\ handler' = At(h, "runlock")
    /\ UNCHANGED <<dbLock, dbConn>>
    /\ UNCHANGED <<store, text>>

\* the steps of the goroutine h
Step(h) ==
    \/ RLock(h, "fix_rlock", "fix_rlock_wait", "fix_test")
    \/ RLocked(h, "fix_rlock_wait", "fix_test")
    \/ FixTest(h)
    \/ RUnlock(h, "fix_runlock", "fix_lock")
    \/ FixLock(h)
    \/ FixLockHanded(h)
    \/ FixDrain(h)
    \/ FixNil(h)
    \/ FixConnect(h)
    \/ FixUnlock(h)
    \/ FixFailed(h)
    \/ RLock(h, "fix_relock", "fix_relock_wait", Fixed(h))
    \/ RLocked(h, "fix_relock_wait", Fixed(h))
    \/ AdminAuth(h)
    \/ AdminForm(h)
    \/ AdminAction(h)
    \/ Items(h)
    \/ RUnlock(h, "runlock", "idle")

NextServe == \E h \in Handlers : Request(h) \/ Step(h)

SpecServe == Init /\ [][NextServe]_vars

\* the scheduler runs every goroutine that can run
SpecServeFair == SpecServe /\ \A h \in Handlers : WF_vars(Step(h))

\* ------------------------------------------------------------------ claims
Referenced(b) == \E r \in rows : r.img = b

\* C1: between calls (every call completed), every row whose img is not
\* null names a blob that is in the asset directory.
C1_RowImagesExist ==
    frame["c1"].pc = "idle" =>
        \A r \in rows : r.img # NoImg => r.img \in blobs

\* C2: with two callers interleaved, no step removes from the asset
\* directory a blob that a committed row references at that moment.
C2_NoReferencedAssetRemoved ==
    [][\A b \in blobs \ blobs' : ~Referenced(b)]_vars

\* C3: no two committed rows hold the same img value.
C3_DistinctImages ==
    \A r1, r2 \in rows : (r1.img # NoImg /\ r1.img = r2.img) => r1 = r2

\* the step in which Add's INSERT fails after an asset was written
AddInsertFailsWithImage(p) ==
    /\ frame[p].pc = "add_insert"
    /\ frame[p].img # NoImg
    /\ frame'[p].pc = "idle"
    /\ frame'[p].ret # "nil"

\* C4: when Add's asset write succeeded and the INSERT fails, Add returns
\* the insert error, no row references the new asset and the asset directory
\* no longer holds the blob.
C4_InsertFailureRemovesAsset ==
    [][\A p \in Callers : AddInsertFailsWithImage(p) =>
          /\ frame'[p].ret \in {"StoreUnavailable", "ConstraintViolation"}
          /\ ~\E r \in rows' : r.img = frame[p].img
          /\ frame[p].img \notin blobs']_vars

\* C4, amended: when Add's asset write succeeded and the INSERT fails, Add
\* returns the insert error, the rows are unchanged, os.Remove is called on
\* the written blob and nothing else leaves the directory; the blob is gone
\* unless that removal failed.
C4_InsertFailureBestEffort ==
    [][\A p \in Callers : AddInsertFailsWithImage(p) =>
          /\ frame'[p].ret \in {"StoreUnavailable", "ConstraintViolation"}
          /\ rows' = rows
          /\ frame'[p].rmErr # "none"
          /\ frame'[p].rmErr = "nil" => frame[p].img \notin blobs'
          /\ blobs' \subseteq blobs
          /\ blobs \ blobs' \subseteq {frame[p].img}]_vars

\* C4 witness: an Add returned a constraint violation after it had written
\* an asset and removed it again
C4_Witness ==
    \E p \in Callers :
        /\ frame[p].pc = "idle"
        /\ frame[p].op = "Add"
        /\ frame[p].ret = "ConstraintViolation"
        /\ frame[p].rmErr = "nil"

\* C5: an Add with an image whose asset write fails returns the write error
\* at once, with the rows unchanged; the INSERT is reached only with the
\* asset written under the generated name.
C5_WriteFailureSkipsInsert ==
    [][\A p \in Callers :
          (/\ frame[p].pc = "add_write"
           /\ frame[p].it.ImgName # NilPath
           /\ frame'[p].pc # "add_write") =>
          \/ /\ frame'[p].pc = "idle"
             /\ frame'[p].ret = "AssetWriteFailed"
             /\ rows' = rows
          \/ /\ frame'[p].pc = "add_insert"
             /\ frame'[p].img = GenName(frame[p].it.ImgName)
             /\ frame'[p].img \in blobs']_vars

\* C5 witness: an Add returned the write error while rows exist
C5_Witness ==
    \E p \in Callers :
        /\ frame[p].pc = "idle"
        /\ frame[p].op = "Add"
        /\ frame[p].ret = "AssetWriteFailed"
        /\ rows # {}

\* C6: when Mod has written a new asset and the SELECT or the UPDATE fails
\* (rmImg runs), the new asset is no longer in the directory, Mod returns
\* the error and the rows are unchanged.
C6_ModFailureRemovesNewAsset ==
    [][\A p \in Callers :
          (/\ frame[p].pc \in {"mod_select", "mod_update"}
           /\ frame[p].newImg # NoImg
           /\ frame'[p].pc = "idle"
           /\ frame'[p].rmErr # "none") =>
          /\ frame'[p].ret # "nil"
          /\ rows' = rows
          /\ frame[p].newImg \notin blobs']_vars

\* C7: in Mod, when the commit has failed the old asset stays in the asset
\* directory.
C7_OldAssetKeptOnCommitFailure ==
    [][\A p \in Callers :
          (frame[p].pc = "mod_rm" /\ frame[p].commitErr) =>
          (frame[p].img \in blobs => frame[p].img \in blobs')]_vars

\* C8: in Del, when the commit has failed no asset is removed and no row
\* is deleted.
C8_DelCommitFailureRemovesNothing ==
    [][\A p \in Callers :
          (frame[p].pc = "del_rm" /\ frame[p].commitErr) =>
          (blobs' = blobs /\ rows' = rows)]_vars

\* C9: a Del that returns success leaves no row matching its keys, and a
\* Mod of an existing row returns success only when its transaction was
\* committed.
C9_SuccessOnlyWhenCommitted ==
    [][\A p \in Callers :
          (/\ frame[p].pc \in {"del_rm", "mod_rm"}
           /\ frame'[p].pc = "idle"
           /\ frame'[p].ret = "nil") =>
          /\ frame[p].op = "Del" =>
                ~\E r \in rows' : r.id \in frame[p].ids \/ r.name \in frame[p].names
          /\ (frame[p].op = "Mod" /\ Where(p) # {}) => ~frame[p].commitErr]_vars

\* C10: a Mod with no field set changes no row and no blob and, unless the
\* store itself is unavailable, returns success.
C10_EmptyModSucceeds ==
    [][\A p \in Callers :
          (frame[p].op = "Mod" /\ frame[p].pc # "idle" /\ set(frame[p].it) = {}) =>
          /\ rows' = rows
          /\ blobs' = blobs
          /\ frame'[p].pc = "idle" => frame'[p].ret \in {"nil", "StoreUnavailable"}]_vars

\* C11: during a Mod that sets only Price, the asset directory never
\* changes and the rows change only in the commit step, where the addressed
\* row gets the new price and keeps its id, name, descr and img, and every
\* other row stays as it is.
C11_PriceOnlyMod ==
    [][\A p \in Callers :
          (/\ frame[p].op = "Mod"
           /\ frame[p].pc # "idle"
           /\ set(frame[p].it) = {"price"}) =>
          /\ blobs' = blobs
          /\ dirExists' = dirExists
          /\ rows' = IF /\ frame[p].pc = "mod_commit"
                        /\ frame'[p].pc = "mod_rm"
                        /\ ~frame'[p].commitErr
                     THEN {IF r \in Where(p)
                           THEN [r EXCEPT !.price = frame[p].it.Price] ELSE r
                           : r \in rows}
                     ELSE rows]_vars

\* C11 witness: a price-only Mod has committed on a row that has an image
\* and a description, next to another row
C11_Witness ==
    \E p \in Callers :
        /\ frame[p].op = "Mod"
        /\ frame[p].pc = "mod_rm"
        /\ set(frame[p].it) = {"price"}
        /\ ~frame[p].commitErr
        /\ \E r \in Where(p) :
             /\ r.price = frame[p].it.Price
             /\ r.img \in blobs
             /\ r.descr # Null
        /\ \E r \in rows \ Where(p) : r.price # frame[p].it.Price

\* the keys of caller p's Del name at least one row of the table and at
\* least one key that matches no row
MixedKeys(p) ==
    /\ Matching(frame[p].ids, frame[p].names) # {}
    /\ \/ \E i \in frame[p].ids : ~\E r \in rows : r.id = i
       \/ \E n \in frame[p].names : ~\E r \in rows : r.name = n

\* C12: a Del whose keys mix existing and missing rows, once its SELECT and
\* DELETE have gone through, deletes exactly the matching rows when its
\* transaction ends, removes after that only assets of those rows, changes
\* no other row and returns success.
C12_DelMixedKeys ==
    [][\A p \in Callers :
          (frame[p].op = "Del" /\ frame'[p].pc # frame[p].pc) =>
          /\ (frame[p].pc = "del_commit" /\ MixedKeys(p)) =>
                rows' = rows \ Matching(frame[p].ids, frame[p].names)
          /\ frame[p].pc = "del_rm" =>
                /\ rows' = rows
                /\ blobs \ blobs' \subseteq frame[p].imgs
                /\ frame'[p].pc = "idle" => frame'[p].ret = "nil"]_vars

\* C13: an Add with an id override (Item.ID non-nil) that succeeds has
\* created exactly one row, and that row has the id of the override.
C13_AddIdOverride ==
    [][\A p \in Callers :
          (/\ frame[p].pc = "add_insert"
           /\ frame[p].it.ID # NilInt
           /\ frame'[p].pc = "idle"
           /\ frame'[p].ret = "nil") =>
          \E r \in rows' \ rows :
              /\ rows' = rows \cup {r}
              /\ r.id = frame[p].it.ID]_vars

\* C14: when Mod is given a new image and the asset write fails, Mod
\* returns the write error with no transaction begun, no row changed and
\* the addressed record's old asset still in the asset directory.
C14_ModWriteFailure ==
    [][\A p \in Callers :
          (/\ frame[p].pc = "mod_write"
           /\ frame[p].it.ImgName \notin {NilPath, EmptyPath}
           /\ frame'[p].pc = "idle") =>
          /\ frame'[p].ret = "AssetWriteFailed"
          /\ tx'[p] = NoTx
          /\ rows' = rows
          /\ \A r \in Where(p) : r.img \in blobs => r.img \in blobs']_vars

\* C15: a Mod that clears the image (Img.Name = "") of a record that has
\* one writes no asset, and when it returns its transaction has committed,
\* the addressed row has no img, and the record's old asset has been
\* removed from the directory (unless that removal itself failed).
C15_ModClearImage ==
    [][\A p \in Callers :
          (/\ frame[p].op = "Mod"
           /\ frame[p].it.ImgName = EmptyPath
           /\ frame'[p].pc # frame[p].pc) =>
          /\ frame[p].pc = "mod_write" => blobs' = blobs
          /\ (frame[p].pc = "mod_rm" /\ frame[p].img # NoImg) =>
                /\ frame'[p].ret = "nil"
                /\ ~frame[p].commitErr
                /\ \A r \in Where(p) : r.img = NoImg
                /\ frame'[p].rmErr = "nil" => frame[p].img \notin blobs']_vars

\* exactly one point in t, and after it exactly two characters, both digits
TwoDecimals(t) ==
    /\ Cardinality({i \in 1..Len(t) : t[i] = "."}) = 1
    /\ Len(t) >= 3
    /\ t[Len(t) - 2] = "."
    /\ IsDigit(t[Len(t) - 1])
    /\ IsDigit(t[Len(t)])

\* C18: for every non-negative Price p, String(p) has exactly one decimal
\* point followed by exactly two digits, and Set(String(p)) succeeds and
\* yields p.
C18_RoundTrip ==
    [][/\ (call'.op = "String" /\ price >= 0) => TwoDecimals(call'.str)
       /\ (/\ call.op = "String"
           /\ call.arg >= 0
           /\ call'.op = "Set"
           /\ call'.arg = call.str) =>
          (call'.err = "nil" /\ price' = call.arg)]_vars

\* C18 witness: the text of the largest Price has been parsed back to it
C18_Witness ==
    /\ call.op = "Set"
    /\ call.err = "nil"
    /\ call.arg = PriceString(MaxInt).str
    /\ price = MaxInt

\* the texts the claim describes: an integer part without leading zeros, or
\* a lone 0, optionally followed by a point and one or two digits
IntegerPart(t) == t # <<>> /\ AllDigits(t) /\ (t = <<"0">> \/ t[1] # "0")

Fraction(t) ==
    t = <<>> \/ (t[1] = "." /\ Len(t) \in {2, 3} /\ AllDigits(Tail(t)))

PriceShape(s) ==
    \E i \in 1..Len(s) :
        IntegerPart(SubSeq(s, 1, i)) /\ Fraction(SubSeq(s, i + 1, Len(s)))

\* 100 * integer part + the fraction right-padded to two digits
PriceValue(s) ==
    LET i == CHOOSE i \in 1..Len(s) :
                 IntegerPart(SubSeq(s, 1, i)) /\ Fraction(SubSeq(s, i + 1, Len(s)))
        f == SubSeq(s, i + 2, Len(s))
    IN 100 * DigitsVal(SubSeq(s, 1, i))
         + (IF Len(f) = 1 THEN 10 * DigitVal(f[1]) ELSE DigitsVal(f))

\* C19: Set accepts exactly the texts made of an integer part without
\* leading zeros (or a lone 0) optionally followed by a point and one or two
\* digits, and stores 100 * integer part + the padded fraction; every other
\* text fails; a stored value is never negative.
C19_SetAcceptsExactly ==
    [][call'.op = "Set" =>
          IF PriceShape(call'.arg)
          THEN /\ call'.err = "nil"
               /\ price' = PriceValue(call'.arg)
               /\ price' >= 0
          ELSE call'.err # "nil"]_vars

\* C19, amended: Set accepts exactly the texts of that shape whose value
\* an int can hold, and stores that value, which is never negative; every
\* other text fails.
C19_SetAcceptsRepresentable ==
    [][call'.op = "Set" =>
          IF PriceShape(call'.arg) /\ PriceValue(call'.arg) <= MaxInt
          THEN /\ call'.err = "nil"
               /\ price' = PriceValue(call'.arg)
               /\ price' >= 0
          ELSE call'.err # "nil"]_vars

\* C19 witness: "3.5" has been parsed to 350
C19_Witness ==
    /\ call.op = "Set"
    /\ call.arg = <<"3", ".", "5">>
    /\ call.err = "nil"
    /\ price = 350

\* C20: for every negative Price p, String(p) is "-" followed by
\* String(-p), and String leaves the value of p unchanged.
C20_NegativeString ==
    [][(call'.op = "String" /\ price < 0) =>
          /\ call'.str = <<"-">> \o PriceString(Wrap(0 - price)).str
          /\ price' = price]_vars

\* a text of decimal digits
NumericLooking(s) == s # <<>> /\ AllDigits(s)

\* C16: for every address text ParseItem returns an error, or, for a
\* numeric-looking text, an id >= 0 with an empty name, or, for any other
\* text, id = -1 with a non-empty name; the Mod or Del that follows is never
\* handed a negative id together with an empty name.
C16_OneAddressingMode ==
    /\ (call.op = "ParseItem" /\ call.err = "nil") =>
          IF NumericLooking(call.arg)
          THEN call.id >= 0 /\ call.name = <<>>
          ELSE call.id = 0 - 1 /\ call.name # <<>>
    /\ call.op = "Mod" => ~(call.id < 0 /\ call.name = <<>>)
    /\ call.op = "Del" => (call.ids # {} \/ (call.names # {} /\ <<>> \notin call.names))

\* C17: a Get that returns no error returns exactly the rows whose id is
\* in ids or whose name is in names, or all rows when both are empty, each
\* once, in ascending order of the requested column, each field equal to
\* the stored value and a NULL descr or img returned as nil.
C17_GetExact ==
    (call.op = "Get" /\ call.err = "nil") =>
        LET want == IF call.ids = {} /\ call.names = {} THEN rows
                    ELSE {r \in rows : r.id \in call.ids \/ r.name \in call.names}
            items == call.items
        IN
        /\ Len(items) = Cardinality(want)
        /\ \A r \in want : \E i \in 1..Len(items) :
              /\ items[i].ID = r.id
              /\ items[i].Name = r.name
              /\ items[i].Price = r.price
              /\ IF r.descr = Null THEN items[i].Descr = NilStr
                 ELSE items[i].Descr = r.descr
              /\ IF r.img = NoImg THEN items[i].ImgName = NilPath
                 ELSE items[i].ImgName = r.img
        /\ \A i, j \in 1..Len(items) :
              i < j => IF call.ord = ByID THEN items[i].ID < items[j].ID
                       ELSE NameRank(items[i].Name) < NameRank(items[j].Name)

\* the sum of price * quantity over the lines, in exact arithmetic
RECURSIVE ExactSum(_)
ExactSum(lines) ==
    IF Len(lines) = 0 THEN 0
    ELSE ExactSum(SubSeq(lines, 1, Len(lines) - 1))
           + lines[Len(lines)].Price * lines[Len(lines)].Num

\* C21: in a checkout every line carries the quantity requested for its
\* item, its total is the item's price times that quantity, and the grand
\* total is the sum of the line totals plus the delivery surcharge of 500.
C21_OrderTotals ==
    (call.op = "checkout" /\ call.err = "nil") =>
        /\ \A i \in 1..Len(call.items) :
              /\ call.items[i].Num = Quantity(call.ordered, call.items[i].ID)
              /\ call.items[i].Total = call.items[i].Price * call.items[i].Num
        /\ call.total = ExactSum(call.items) + 500

\* a numeral, with or without a sign, and its value
IsNumeral(v) ==
    \/ v # <<>> /\ AllDigits(v)
    \/ Len(v) > 1 /\ v[1] = "-" /\ AllDigits(Tail(v))

NumeralValue(v) == IF v[1] = "-" THEN 0 - DigitsVal(Tail(v)) ELSE DigitsVal(v)

\* a quantity that is 0, negative or greater than 100
BadQty(v) == IsNumeral(v) /\ (NumeralValue(v) <= 0 \/ NumeralValue(v) > 100)

\* C22: a form entry whose quantity is 0, negative or greater than 100
\* adds nothing to the order: unless another entry of the form names the
\* same item, the item's id is not in the requested set and no line has a
\* quantity for it.
C22_BadQuantityExcluded ==
    call.op = "checkout" =>
        \A k \in DOMAIN call.form :
            (/\ BadQty(call.form[k])
             /\ stoi(k).err = "nil"
             /\ \A k2 \in DOMAIN call.form \ {k} : stoi(k2).n # stoi(k).n) =>
            /\ stoi(k).n \notin call.ids
            /\ \A i \in 1..Len(call.items) :
                  call.items[i].ID = stoi(k).n => call.items[i].Num = 0

\* C23: the lines of a checkout are exactly the rows of the table whose
\* ids were submitted with a valid quantity, each once, and every line has
\* a quantity in 1..100.
C23_LinesAreValidEntries ==
    (call.op = "checkout" /\ call.err = "nil") =>
        /\ {call.items[i].ID : i \in 1..Len(call.items)}
             = {r.id : r \in {r \in rows : r.id \in call.ids}}
        /\ \A i, j \in 1..Len(call.items) :
              call.items[i].ID = call.items[j].ID => i = j
        /\ \A i \in 1..Len(call.items) : call.items[i].Num \in 1..100

\* C24: a failure to remove an asset never fails the enclosing operation.
\* An Add whose INSERT failed returns the error of the INSERT also when the
\* removal of the written asset fails; a Mod or a Del whose change was
\* committed returns nil also when the removal of an old asset fails.
C24_RemoveFailureNotFatal ==
    [][\A p \in Callers :
          /\ (/\ frame[p].pc = "add_insert"
              /\ frame'[p].pc = "idle"
              /\ frame'[p].rmErr = "err") =>
                 /\ frame'[p].ret \in {"StoreUnavailable", "ConstraintViolation"}
                 /\ frame'[p].ret = "ConstraintViolation" =>
                      \E nid \in IDs : Clash(AddRow(p, nid), rows)
          /\ (/\ frame[p].pc = "mod_rm"
              /\ ~frame[p].commitErr
              /\ frame'[p].pc = "idle"
              /\ frame'[p].rmErr = "err") => frame'[p].ret = "nil"
          /\ (/\ frame[p].pc = "del_rm"
              /\ ~frame[p].commitErr
              /\ frame[p].rmErr = "err"
              /\ frame'[p].pc = "idle") => frame'[p].ret = "nil"
          /\ (/\ frame[p].pc = "del_rm"
              /\ frame'[p].rmErr = "err") => frame'[p].pc \in {"del_rm", "idle"}]_vars

\* C24 witness: an Add returned the error of the INSERT after the removal of
\* the asset it had written failed
C24_Witness ==
    \E p \in Callers :
        /\ frame[p].pc = "idle"
        /\ frame[p].op = "Add"
        /\ frame[p].rmErr = "err"
        /\ frame[p].ret = "ConstraintViolation"

\* C25: a Mod that sets a new image on an existing record whose img is NULL
\* reads the current reference and goes on to the UPDATE: unless the store
\* fails, the read of the reference does not end the call, and a call that
\* went through mod_rm with nothing to remove returns nil.
C25_ModNewImageOnNull ==
    [][\A p \in Callers :
          (/\ frame[p].pc = "mod_select"
           /\ frame[p].newImg # NoImg
           /\ \E r \in Where(p) : r.img = NoImg) =>
          \/ frame'[p].pc = "mod_select"
          \/ frame'[p].pc = "mod_update" /\ frame'[p].img = NoImg /\ blobs' = blobs
          \/ frame'[p].pc = "idle" /\ frame'[p].ret = "StoreUnavailable"]_vars

\* C26: a Del with both key sets empty returns nil at once: it begins no
\* transaction (so the store cannot fail it), deletes no row and removes no
\* asset.
C26_EmptyDelIsNoop ==
    [][\A p \in Callers :
          (/\ frame[p].pc = "del_select"
           /\ frame[p].ids = {}
           /\ frame[p].names = {}
           /\ frame'[p] # frame[p]) =>
          /\ frame'[p].pc = "idle"
          /\ frame'[p].ret = "nil"
          /\ frame'[p].rmErr = "none"
          /\ tx' = tx
          /\ rows' = rows
          /\ blobs' = blobs
          /\ dirExists' = dirExists]_vars

\* C26 witness: a Del with both key sets empty is running on a table that
\* holds a row with an asset
C26_Witness ==
    \E p \in Callers :
        /\ frame[p].pc = "del_select"
        /\ frame[p].ids = {}
        /\ frame[p].names = {}
        /\ \E r \in rows : r.img \in blobs

\* C29: a Set that returns an error leaves the receiver as it was; the
\* receiver changes only in a Set that returns nil, and then to the number
\* the text denotes in minor units.
C29_FailedSetKeepsValue ==
    [][call'.op = "Set" /\ call' # call =>
          /\ call'.err # "nil" => price' = price
          /\ price' # price => call'.err = "nil"]_vars

\* C29 witness: a Set failed in the conversion of an accepted text, and the
\* receiver holds a number that an earlier call left there
C29_Witness ==
    /\ call.op = "Set"
    /\ call.err \notin {"nil", "invalid price"}
    /\ price # 0

\* C30: a copyImg that failed, on create or while copying, returned the
\* empty name, and the directory holds no blob under the generated name.
C30_FailedWriteLeavesNoBlob ==
    (call.op = "copyImg" /\ call.err) =>
        /\ call.img = NoImg
        /\ call.gen \notin blobs

\* C30, amended: a copyImg that fails returns the empty name.  When the
\* create failed the directory is as it was; when the copy failed os.Remove
\* was called on the generated name, which is gone unless that removal
\* failed, and no other blob changed.
C30_FailedWriteBestEffort ==
    [][(call'.op = "copyImg" /\ call' # call /\ call'.err) =>
          /\ call'.img = NoImg
          /\ ~call'.created => blobs' = blobs
          /\ call'.created /\ call'.rmok => blobs' = blobs \ {call'.gen}
          /\ call'.created /\ ~call'.rmok => blobs' = blobs \cup {call'.gen}]_vars

\* C30 witness: a copy failed, the file was removed, and other blobs are
\* still in the directory
C30_Witness ==
    /\ call.op = "copyImg"
    /\ call.err
    /\ call.created
    /\ call.rmok
    /\ call.gen \notin blobs
    /\ blobs # {}

\* the pcs at which dbConnFix has returned nil to the handler
AfterFix == {"auth", "form", "action", "items", "runlock"}

\* the pcs at which the exclusive lock is held and dbConn is written
Replacing == {"fix_nil", "fix_connect", "fix_unlock"}

\* after dbConnFix returned nil the handler holds the read lock exactly
\* once; after it returned an error, and after the handler returned, the
\* goroutine holds no lock; nobody holds a read lock during a replacement
LockDiscipline ==
    \A h \in Handlers :
        /\ dbLock.r[h] \in {0, 1}
        /\ handler[h].pc \in AfterFix => dbLock.r[h] = 1 /\ dbLock.w # h
        /\ handler[h].pc = "fix_test" => dbLock.r[h] = 1
        /\ handler[h].pc \in {"fix_failed", "idle"} =>
             /\ dbLock.r[h] = 0
             /\ dbLock.w # h
             /\ h \notin dbLock.rwait
        /\ handler[h].pc \in Replacing =>
             /\ dbLock.w = h
             /\ dbLock.excl
             /\ \A g \in Handlers : dbLock.r[g] = 0

\* dbConn is written only by the goroutine that has the exclusive lock
ReplacedUnderLock ==
    [][dbConn' # dbConn =>
          \E h \in Handlers :
              /\ handler[h].pc \in Replacing
              /\ dbLock.w = h
              /\ dbLock.excl
              /\ \A g \in Handlers : dbLock.r[g] = 0]_vars

\* every request is answered
NoHandlerBlocks ==
    \A h \in Handlers : (handler[h].pc # "idle") ~> (handler[h].pc = "idle")

\* C27: dbConnFix returns nil only with the read lock held exactly once by
\* its caller and an error only with no lock held, every handler releases
\* the read lock on every return path, dbConn is replaced only under the
\* exclusive lock with no read lock held, and no handler blocks forever.
C27_LockDiscipline ==
    /\ []LockDiscipline
    /\ ReplacedUnderLock
    /\ NoHandlerBlocks

\* C27 witness: a goroutine replaces the connection that another goroutine
\* found broken too, while that one waits for the writers' mutex
C27_Witness ==
    \E h \in Handlers :
        /\ handler[h].pc = "fix_connect"
        /\ dbLock.wq # <<>>
        /\ dbConn = NilConn

\* C28: handleAdmin executes chpass, itemadd, itemdel or itemmod only for a
\* request for which auth returned http.StatusOK and whose method is POST.
C28_MutationNeedsAuthAndPost ==
    \A h \in Handlers :
        handler[h].executed # "none" =>
            /\ handler[h].route = "admin"
            /\ handler[h].code = StatusOK
            /\ handler[h].method = "POST"

\* C28 witness: an authenticated POST has changed the password and goes on
\* to list the items
C28_Witness ==
    \E h \in Handlers :
        /\ handler[h].executed = "chpass"
        /\ handler[h].pc = "items"
====
